---- MODULE Spec2Model ----
(***************************************************************************)
(* LAN messenger client: the WebSocket session transport                   *)
(* (client/network/websocket_client.py, class MessengerWebSocket) and the  *)
(* server registry with its UDP probe (client/server_discovery.py,         *)
(* client/network/broadcast_client.py).                                    *)
(*                                                                         *)
(* The session is modelled as the threads the code runs: one listener      *)
(* thread per connect() call, each with its own asyncio loop, and the      *)
(* caller's thread issuing connect(), disconnect() and send_message().     *)
(* A listener's position (pc) advances between the points where the code   *)
(* can be interleaved with another thread: the outer loop test (line 79),  *)
(* the call of websockets.connect (line 84), the awaits.                   *)
(***************************************************************************)
EXTENDS Integers, Sequences, FiniteSets, TLC

\* ------------------------------------------------------------------ bounds
\* connect() calls on one session object (one listener thread each)
MaxListeners == 2
\* transport connections that are established over a run
MaxConns == 2
\* send_message() calls over a run
MaxMsgs == 1

\* background loop threads started over a run
MaxLoops == 2
\* subscribers that can register a callback
MaxSubs == 2

\* start() calls of the responder that create a socket and a listener thread
MaxStarts == 2
\* datagrams the responder receives over a run
MaxRequests == 2

\* threads that call quick_discover() on the shared instance
MaxWorkers == 2

\* datagrams (or receive errors) the network delivers in one probe round
MaxReplies == 2
\* the clock (seconds) at construction, and where the model stops it
Now0 == 1000
MaxTime == 1500
\* the clock advances by max_cache_age, or by this much more
PastLimit == 100

\* ------------------------------------------------------- program constants
max_reconnect_attempts == 5
BackoffBase == 2
BackoffCap == 10
\* DiscoveryConfig.max_cache_age, seconds
max_cache_age == 300
\* BroadcastClient.timeout, milliseconds: the default and the one of a quick round
DefaultTimeout == 3000
QuickTimeout == 1500
\* discovery_thread.join(timeout=2), seconds
JoinTimeout == 2
\* BroadcastServer: socket.settimeout(1.0), time.sleep(1) and thread.join(timeout=2)
SocketTimeout == 1
ErrorPause == 1
StopJoinTimeout == 2
\* check_and_start_server: max_attempts = 3
max_attempts == 3
\* BroadcastServer.server_port and the online users the user directory reports
server_port == 8000
OnlineUsers == 3

VARIABLES
    running,             \* self.running
    is_connected,        \* self.is_connected
    reconnect_attempts,  \* self.reconnect_attempts
    ws,                  \* self.ws: 0 is None, else the id of a connection
    loop,                \* self.loop: 0 is None, else the listener thread owning the loop
    pc,                  \* each listener thread's position in _websocket_listener
    lws,                 \* each listener's local `websocket` (a connection id, 0 before the first)
    delay,               \* the asyncio.sleep a listener is in (0 when not sleeping)
    open,                \* the transport connections that are open
    nconn,               \* connections established so far
    tasks,               \* coroutines handed to a loop by run_coroutine_threadsafe, not yet run
    offline_calls,       \* calls of _mark_user_offline
    \* ---- observations (history), never read by the program's actions
    via,                 \* how a listener last reached the outer loop test
    failStreak,          \* failed connection attempts since the last success
    lastDelay,           \* the last backoff delay computed since the last success (0: none)
    callState,           \* per message: "none", or whether the session was established at the call
    warned,              \* per message: the not-connected warning was logged
    sentOn,              \* per message: the connection it was transmitted on (0: not transmitted)
    firstFrame,          \* per open connection: the first frame the client sent on it ("none" yet)
    \* ---- discovery: ServerDiscovery and its BroadcastClient
    found_servers,       \* self.found_servers: key "ip:port" -> ServerInfo
    timeout,             \* self.broadcast_client.timeout, milliseconds
    now,                 \* time.time(), seconds
    \* ---- observations of the last discovery operation
    lastOp,              \* "none", "discover", "quick", "clear", "tick"
    lastRound,           \* the network events of the last discovery round
    wasEmpty,            \* the registry was empty when the last operation began
    probeIn,             \* a probe round's input: the network's events and the timeout
    probeOut,            \* a probe round's outcome
    \* ---- continuous discovery: the background loop of ServerDiscovery
    is_discovering,      \* self.is_discovering
    discovery_thread,    \* self.discovery_thread: 0 is None, else the id of a loop thread
    lpc,                 \* each loop thread's position in _discovery_loop
    lservers,            \* each loop thread's local `servers`, what discover() returned
    lcalled,             \* each loop thread: the callbacks called so far in this iteration
    callbacks,           \* self.callbacks: the registered subscribers
    joining,             \* stop_continuous_discovery() is inside discovery_thread.join
    waited,              \* seconds that join has waited
    \* ---- observations of the continuous loop
    lfound,              \* each loop thread: the servers its last probe round returned
    lraised,             \* each loop thread: a callback raised in this iteration
    \* ---- one inbound frame of the session
    msgIn,               \* the frame _handle_message is called with, and whether ws.send works
    msgOut,              \* what the handler did with it
    \* ---- the responder: BroadcastServer
    is_running,          \* self.is_running
    socket,              \* self.socket: 0 is None, else the id of a socket object
    thread,              \* self.thread: 0 is None, else the id of a listener thread
    sopen,               \* the socket objects that are open
    rpc,                 \* each listener thread's position in _listen_loop
    rsock,               \* the socket object a listener's recvfrom was called on
    rtimer,              \* seconds a listener has been blocked in recvfrom or sleep
    spc,                 \* the position of the caller inside stop()
    jwaited,             \* seconds that stop()'s join has waited
    handlers,            \* per datagram received: the _handle_request thread
    replies,             \* the datagrams sent: [req, to, sock, data]
    \* ---- concurrent quick_discover() calls on the shared ServerDiscovery
    qpc,                 \* each worker thread's position in quick_discover
    qsaved,              \* each worker's local original_timeout (0 outside a call)
    \* ---- the launch of the server process: main() of server/main.py
    launch,              \* the input: the command line and the stored configuration
    config,              \* ServerConfig.config: password_protected, password_hash, salt
    disk,                \* the configuration file
    mpc,                 \* the position of main()
    attempt,             \* attempts used in check_and_start_server
    chosen               \* the password the operator chose in this launch ("" if none)

svars == <<running, is_connected, reconnect_attempts, ws, loop, pc, lws, delay,
           open, nconn, tasks, offline_calls, via, failStreak, lastDelay, callState,
           warned, sentOn, firstFrame>>

msgObs == <<callState, warned, sentOn>>

dvars == <<found_servers, timeout, now, lastOp, lastRound, wasEmpty>>

pvars == <<probeIn, probeOut>>

cvars == <<is_discovering, discovery_thread, lpc, lservers, lcalled, callbacks, joining,
           waited, lfound, lraised>>

mvars == <<msgIn, msgOut>>

rvars == <<is_running, socket, thread, sopen, rpc, rsock, rtimer, spc, jwaited, handlers,
           replies>>

qvars == <<qpc, qsaved>>

avars == <<launch, config, disk, mpc, attempt, chosen>>

vars == <<svars, dvars, pvars, cvars, mvars, rvars, qvars, avars>>

\* What the operations of one subsystem leave alone
notSession == <<dvars, pvars, cvars, mvars, rvars, qvars, avars>>

notDiscovery == <<svars, pvars, cvars, mvars, rvars, qvars, avars>>

notProbe == <<svars, dvars, cvars, mvars, rvars, qvars, avars>>

notContinuous == <<svars, pvars, mvars, rvars, qvars, avars>>

notDispatch == <<svars, dvars, pvars, cvars, rvars, qvars, avars>>

notResponder == <<svars, dvars, pvars, cvars, mvars, qvars, avars>>

notQuick == <<svars, pvars, cvars, mvars, rvars, avars>>

notStartup == <<svars, dvars, pvars, cvars, mvars, rvars, qvars>>

Listeners == 1..MaxListeners
Msgs == 1..MaxMsgs

Min(a, b) == IF a <= b THEN a ELSE b

\* The delay of _handle_disconnection, line 146
BackoffDelay(n) == Min(BackoffBase * n, BackoffCap)

\* A listener holds an established connection: it is inside `async with` on an open one
Established(l) == pc[l] \in {"auth", "inner", "recv"} /\ lws[l] \in open

\* The loop behind self.loop accepts coroutines: it exists and is not closed (lines 65-72)
LoopAlive == loop # 0 /\ pc[loop] \notin {"idle", "done"}

\* A listener's thread is inside an await, so its loop runs other coroutines
Awaiting(l) == pc[l] \in {"connecting", "recv", "backoff"}

\* __init__, lines 30-59
SessionInit ==
    /\ running = TRUE
    /\ is_connected = FALSE
    /\ reconnect_attempts = 0
    /\ ws = 0
    /\ loop = 0
    /\ pc = [l \in Listeners |-> "idle"]
    /\ lws = [l \in Listeners |-> 0]
    /\ delay = [l \in Listeners |-> 0]
    /\ open = {}
    /\ nconn = 0
    /\ tasks = {}
    /\ offline_calls = 0
    /\ via = [l \in Listeners |-> "start"]
    /\ failStreak = 0
    /\ lastDelay = 0
    /\ callState = [d \in Msgs |-> "none"]
    /\ warned = [d \in Msgs |-> FALSE]
    /\ sentOn = [d \in Msgs |-> 0]
    /\ firstFrame = [c \in 1..MaxConns |-> "none"]

\* connect(), lines 61-75: a new thread with a new loop, which becomes self.loop
Connect(l) ==
    /\ UNCHANGED <<notSession, firstFrame>>
    /\ pc[l] = "idle"
    /\ \A k \in Listeners : k < l => pc[k] # "idle"
    /\ pc' = [pc EXCEPT ![l] = "loop"]
    /\ loop' = l
    /\ UNCHANGED <<running, is_connected, reconnect_attempts, ws, lws, delay, open, nconn,
                   tasks, offline_calls, via, failStreak, lastDelay, msgObs>>

\* The outer loop test, line 79
LoopGuard == running /\ reconnect_attempts < max_reconnect_attempts

LoopTest(l) ==
    /\ UNCHANGED <<notSession, firstFrame>>
    /\ pc[l] = "loop"
    /\ pc' = [pc EXCEPT ![l] = IF LoopGuard THEN "try" ELSE "exit"]
    /\ UNCHANGED <<running, is_connected, reconnect_attempts, ws, loop, lws, delay, open,
                   nconn, tasks, offline_calls, via, failStreak, lastDelay, msgObs>>

\* websockets.connect is called, lines 81-89: a connection attempt starts
StartConnect(l) ==
    /\ UNCHANGED <<notSession, firstFrame>>
    /\ pc[l] = "try"
    /\ pc' = [pc EXCEPT ![l] = "connecting"]
    /\ UNCHANGED <<running, is_connected, reconnect_attempts, ws, loop, lws, delay, open,
                   nconn, tasks, offline_calls, via, failStreak, lastDelay, msgObs>>

\* The attempt succeeds, lines 90-93
ConnectOk(l) ==
    /\ UNCHANGED <<notSession, firstFrame>>
    /\ pc[l] = "connecting"
    /\ nconn < MaxConns
    /\ nconn' = nconn + 1
    /\ open' = open \cup {nconn + 1}
    /\ ws' = nconn + 1
    /\ lws' = [lws EXCEPT ![l] = nconn + 1]
    /\ is_connected' = TRUE
    /\ reconnect_attempts' = 0
    /\ failStreak' = 0
    /\ lastDelay' = 0
    /\ pc' = [pc EXCEPT ![l] = "auth"]
    /\ UNCHANGED <<running, loop, delay, tasks, offline_calls, via, msgObs>>

\* _handle_disconnection, lines 139-150: what it leaves in the counter and the sleep
AttemptsAfterFailure(n) == n + 1

SleepsAfterFailure(n) == n < max_reconnect_attempts

\* The attempt fails, lines 127-132, and _handle_disconnection runs up to its sleep
ConnectFail(l) ==
    /\ UNCHANGED <<notSession, firstFrame>>
    /\ pc[l] = "connecting"
    /\ is_connected' = FALSE
    /\ reconnect_attempts' = AttemptsAfterFailure(reconnect_attempts)
    /\ failStreak' = failStreak + 1
    /\ IF SleepsAfterFailure(reconnect_attempts')
          THEN /\ delay' = [delay EXCEPT ![l] = BackoffDelay(reconnect_attempts')]
               /\ lastDelay' = BackoffDelay(reconnect_attempts')
               /\ pc' = [pc EXCEPT ![l] = "backoff"]
               /\ via' = via
          ELSE /\ delay' = delay
               /\ lastDelay' = lastDelay
               /\ pc' = [pc EXCEPT ![l] = "loop"]
               /\ via' = [via EXCEPT ![l] = "exhausted"]
    /\ UNCHANGED <<running, ws, loop, lws, open, nconn, tasks, offline_calls, msgObs>>

\* asyncio.sleep(delay) returns, line 148, and the listener is back at the loop test
BackoffDone(l) ==
    /\ UNCHANGED <<notSession, firstFrame>>
    /\ pc[l] = "backoff"
    /\ pc' = [pc EXCEPT ![l] = "loop"]
    /\ via' = [via EXCEPT ![l] = "backoff"]
    /\ delay' = [delay EXCEPT ![l] = 0]
    /\ UNCHANGED <<running, is_connected, reconnect_attempts, ws, loop, lws, open, nconn,
                   tasks, offline_calls, failStreak, lastDelay, msgObs>>

\* A frame of this kind is sent on connection c: it is the first, or not
FrameSent(c, kind) ==
    IF firstFrame[c] = "none" THEN [firstFrame EXCEPT ![c] = kind] ELSE firstFrame

\* The auth message, lines 96-107. It is sent when get_auth_token() returns a token
\* and the send does not raise; without a token (line 99) or on an exception
\* (lines 106-107) nothing is sent. Either way the listener goes on to the read loop.
SendAuth(l) ==
    /\ UNCHANGED notSession
    /\ pc[l] = "auth"
    /\ \E sent \in {TRUE, FALSE} :
          /\ sent => lws[l] \in open
          /\ firstFrame' = IF sent THEN FrameSent(lws[l], "auth") ELSE firstFrame
    /\ pc' = [pc EXCEPT ![l] = "inner"]
    /\ UNCHANGED <<running, is_connected, reconnect_attempts, ws, loop, lws, delay, open,
                   nconn, tasks, offline_calls, via, failStreak, lastDelay, msgObs>>

\* What the listener does when the read loop is left (break, or running false):
\* `async with` closes the connection and control is back at line 79.
\* No statement of lines 109-125 calls _handle_disconnection.
LeaveConnection(l, how) ==
    /\ open' = open \ {lws[l]}
    /\ firstFrame' = [firstFrame EXCEPT ![lws[l]] = "none"]
    /\ pc' = [pc EXCEPT ![l] = "loop"]
    /\ via' = [via EXCEPT ![l] = how]
    /\ UNCHANGED <<is_connected, reconnect_attempts, delay>>

\* The read loop's test, line 109
InnerGuard_Always == TRUE

InnerGuard == running

InnerTest(l) ==
    /\ UNCHANGED notSession
    /\ pc[l] = "inner"
    /\ IF InnerGuard
          THEN /\ pc' = [pc EXCEPT ![l] = "recv"]
               /\ UNCHANGED <<open, via, is_connected, reconnect_attempts, delay, firstFrame>>
          ELSE LeaveConnection(l, "stopped")
    /\ UNCHANGED <<running, ws, loop, lws, nconn, tasks, offline_calls, failStreak, lastDelay, msgObs>>

\* 25 s pass without a frame and the keep-alive 'ping' is sent, lines 113-116
RecvTimeout(l) ==
    /\ UNCHANGED notSession
    /\ pc[l] = "recv"
    /\ lws[l] \in open
    /\ firstFrame' = FrameSent(lws[l], "ping")
    /\ pc' = [pc EXCEPT ![l] = "inner"]
    /\ UNCHANGED <<running, is_connected, reconnect_attempts, ws, loop, lws, delay, open,
                   nconn, tasks, offline_calls, via, failStreak, lastDelay, msgObs>>

\* A frame arrives and is handled, lines 111-112
RecvOk(l) ==
    /\ UNCHANGED <<notSession, firstFrame>>
    /\ pc[l] = "recv"
    /\ lws[l] \in open
    /\ pc' = [pc EXCEPT ![l] = "inner"]
    /\ UNCHANGED <<running, is_connected, reconnect_attempts, ws, loop, lws, delay, open,
                   nconn, tasks, offline_calls, via, failStreak, lastDelay, msgObs>>

\* The established connection fails, lines 113-125: the ping cannot be sent, the
\* connection is closed (by the peer, or by _close_async), or recv raises
RecvFail(l) ==
    /\ UNCHANGED notSession
    /\ pc[l] = "recv"
    /\ LeaveConnection(l, "lost")
    /\ UNCHANGED <<running, ws, loop, lws, nconn, tasks, offline_calls, failStreak, lastDelay, msgObs>>

\* After the outer loop, lines 134-137, and the thread's end, lines 70-72
Exit(l) ==
    /\ UNCHANGED <<notSession, firstFrame>>
    /\ pc[l] = "exit"
    /\ pc' = [pc EXCEPT ![l] = "done"]
    /\ offline_calls' = IF running THEN offline_calls + 1 ELSE offline_calls
    /\ tasks' = {t \in tasks : t.loop # l}
    /\ UNCHANGED <<running, is_connected, reconnect_attempts, ws, loop, lws, delay, open,
                   nconn, via, failStreak, lastDelay, msgObs>>

\* send_message's test, line 200
SendGuard == is_connected /\ ws # 0

\* send_message(data), lines 198-207
SendMessage(d) ==
    /\ UNCHANGED <<notSession, firstFrame>>
    /\ callState[d] = "none"
    /\ \A k \in Msgs : k < d => callState[k] # "none"
    /\ callState' = [callState EXCEPT ![d] =
            IF \E l \in Listeners : Established(l) THEN "active" ELSE "inactive"]
    /\ IF SendGuard
          THEN /\ tasks' = IF LoopAlive
                              THEN tasks \cup {[loop |-> loop, kind |-> "send", data |-> d]}
                              ELSE tasks
               /\ warned' = warned
          ELSE /\ tasks' = tasks
               /\ warned' = [warned EXCEPT ![d] = TRUE]
    /\ UNCHANGED <<running, is_connected, reconnect_attempts, ws, loop, pc, lws, delay, open,
                   nconn, offline_calls, via, failStreak, lastDelay, sentOn>>

\* _send_async(data) runs on its loop, lines 209-217, and the frame is transmitted
SendAsyncOk(t) ==
    /\ UNCHANGED notSession
    /\ t \in tasks /\ t.kind = "send"
    /\ Awaiting(t.loop)
    /\ ws \in open
    /\ sentOn' = [sentOn EXCEPT ![t.data] = ws]
    /\ firstFrame' = FrameSent(ws, "data")
    /\ tasks' = tasks \ {t}
    /\ UNCHANGED <<running, is_connected, reconnect_attempts, ws, loop, pc, lws, delay, open,
                   nconn, offline_calls, via, failStreak, lastDelay, callState, warned>>

\* _send_async(data) runs and self.ws.send raises, lines 214-217
SendAsyncFail(t) ==
    /\ UNCHANGED <<notSession, firstFrame>>
    /\ t \in tasks /\ t.kind = "send"
    /\ Awaiting(t.loop)
    /\ is_connected' = FALSE
    /\ tasks' = tasks \ {t}
    /\ UNCHANGED <<running, reconnect_attempts, ws, loop, pc, lws, delay, open,
                   nconn, offline_calls, via, failStreak, lastDelay, msgObs>>

\* disconnect(), lines 219-231
Disconnect ==
    /\ UNCHANGED <<notSession, firstFrame>>
    /\ running' = FALSE
    /\ is_connected' = FALSE
    /\ tasks' = IF ws # 0 /\ LoopAlive
                   THEN tasks \cup {[loop |-> loop, kind |-> "close", data |-> 0]}
                   ELSE tasks
    /\ UNCHANGED <<reconnect_attempts, ws, loop, pc, lws, delay, open, nconn,
                   offline_calls, via, failStreak, lastDelay, msgObs>>

\* _close_async runs on its loop, lines 233-239
CloseAsync(t) ==
    /\ UNCHANGED notSession
    /\ t \in tasks /\ t.kind = "close"
    /\ Awaiting(t.loop)
    /\ open' = open \ {ws}
    /\ firstFrame' = [firstFrame EXCEPT ![ws] = "none"]
    /\ tasks' = tasks \ {t}
    /\ UNCHANGED <<running, is_connected, reconnect_attempts, ws, loop, pc, lws, delay,
                   nconn, offline_calls, via, failStreak, lastDelay, msgObs>>

SessionNext ==
    \/ \E l \in Listeners : Connect(l)
    \/ \E l \in Listeners : LoopTest(l)
    \/ \E l \in Listeners : StartConnect(l)
    \/ \E l \in Listeners : ConnectOk(l)
    \/ \E l \in Listeners : ConnectFail(l)
    \/ \E l \in Listeners : BackoffDone(l)
    \/ \E l \in Listeners : SendAuth(l)
    \/ \E l \in Listeners : InnerTest(l)
    \/ \E l \in Listeners : RecvOk(l)
    \/ \E l \in Listeners : RecvTimeout(l)
    \/ \E l \in Listeners : RecvFail(l)
    \/ \E l \in Listeners : Exit(l)
    \/ \E d \in Msgs : SendMessage(d)
    \/ \E t \in tasks : SendAsyncOk(t)
    \/ \E t \in tasks : SendAsyncFail(t)
    \/ Disconnect
    \/ \E t \in tasks : CloseAsync(t)


\* ---------------------------------------------------------------- discovery

\* Source addresses of the datagrams a probe receives
Hosts == {"10.0.0.1", "10.0.0.2"}

\* Payloads, as the JSON object they decode to; NotJson does not decode
RespAlpha == [type |-> "server_response", name |-> "Alpha", port |-> 8001,
              users_count |-> 1, description |-> "first"]

RespGamma == [type |-> "server_response", name |-> "Gamma", port |-> 8001,
              users_count |-> 3, description |-> "renamed", ip |-> "10.0.0.9"]

RespBeta == [type |-> "server_response", name |-> "Beta", port |-> 8002]

RespNoName == [type |-> "server_response", port |-> 8001]

RespNoPort == [type |-> "server_response", name |-> "Delta"]

RespWrongType == [type |-> "discovery", name |-> "Echo", port |-> 8001]

NotJson == [malformed |-> TRUE]

\* dict.get(field, default)
Get(obj, field, default) == IF field \in DOMAIN obj THEN obj[field] ELSE default

\* The registry key, lines 73 and 212 of server_discovery.py: f"{ip}:{port}"
ServerKey_IpOnly(ip, port) == ip

ServerKey(ip, port) == ip \o ":" \o ToString(port)

\* The type test of _parse_server_response, line 105
IsServerResponse_Any(data) == TRUE

IsServerResponse(data) == Get(data, "type", "") = "server_response"

\* _parse_server_response, broadcast_client.py lines 91-130: <<>> is None
ParseServerResponse_PayloadIp(data, ip, t) ==
    IF "malformed" \in DOMAIN data THEN <<>>
    ELSE IF ~IsServerResponse(data) THEN <<>>
    ELSE IF "name" \notin DOMAIN data \/ "port" \notin DOMAIN data THEN <<>>
    ELSE << [name |-> data["name"],
             ip |-> Get(data, "ip", ip),
             port |-> data["port"],
             users_count |-> Get(data, "users_count", 0),
             is_password_protected |-> Get(data, "password_required", FALSE),
             description |-> Get(data, "description", ""),
             version |-> Get(data, "version", "1.0"),
             max_users |-> Get(data, "max_users", 50),
             is_online |-> TRUE,
             last_seen |-> t] >>

ParseServerResponse(data, ip, t) ==
    IF "malformed" \in DOMAIN data THEN <<>>
    ELSE IF ~IsServerResponse(data) THEN <<>>
    ELSE IF "name" \notin DOMAIN data \/ "port" \notin DOMAIN data THEN <<>>
    ELSE << [name |-> data["name"],
             ip |-> ip,
             port |-> data["port"],
             users_count |-> Get(data, "users_count", 0),
             is_password_protected |-> Get(data, "password_required", FALSE),
             description |-> Get(data, "description", ""),
             version |-> Get(data, "version", "1.0"),
             max_users |-> Get(data, "max_users", 50),
             is_online |-> TRUE,
             last_seen |-> t] >>

\* What discover_servers returns: the list, whether an exception reached the caller,
\* the datagrams received and the time the round took (milliseconds)
ProbeResult(servers, raised, n, elapsed) ==
    [done |-> TRUE, servers |-> servers, raised |-> raised, ndgrams |-> n, elapsed |-> elapsed]

\* socket.timeout in recvfrom, lines 77-78: break, close, return
OnSocketTimeout_Raises(servers, n, elapsed) == ProbeResult(servers, TRUE, n, elapsed)

OnSocketTimeout(servers, n, elapsed) == ProbeResult(servers, FALSE, n, elapsed)

\* An exception that leaves the loop is caught by the outer handler, lines 86-89
OnOuterException(servers, n, elapsed) == ProbeResult(servers, FALSE, n, elapsed)

\* The receive loop, lines 66-84. evs are the network's events in order, each with the
\* time since the previous one; i is the next event, n the datagrams received so far.
\* A recvfrom error before the first datagram makes the handler of line 82 raise
\* (addr is unbound) and the outer handler ends the round.
RECURSIVE ProbeLoop(_, _, _, _, _, _, _)
ProbeLoop(evs, i, elapsed, servers, n, to, t) ==
    IF ~(elapsed < to) THEN ProbeResult(servers, FALSE, n, elapsed)
    ELSE IF i > Len(evs) \/ evs[i].wait >= to THEN OnSocketTimeout(servers, n, elapsed + to)
    ELSE IF evs[i].kind = "dgram"
         THEN ProbeLoop(evs, i + 1, elapsed + evs[i].wait,
                        servers \o ParseServerResponse(evs[i].data, evs[i].ip, t),
                        n + 1, to, t)
    ELSE IF n = 0 THEN OnOuterException(servers, n, elapsed + evs[i].wait)
    ELSE ProbeLoop(evs, i + 1, elapsed + evs[i].wait, servers, n, to, t)

\* discover_servers, lines 33-89. round.sockfail: the socket cannot be made or sent on
DiscoverServers(round, to, t) ==
    IF round.sockfail THEN OnOuterException(<<>>, 0, 0)
    ELSE ProbeLoop(round.evs, 1, 0, <<>>, 0, to, t)

EmptyRegistry == [k \in {} |-> 0]

\* discover(), lines 76-81: an existing entry, or a new one
RefreshEntry(old, server, t) == [old EXCEPT !.last_seen = t, !.is_online = TRUE]

NewEntry(server, t) == [server EXCEPT !.last_seen = t]

\* discover(), lines 72-84
RECURSIVE MergeInto(_, _, _)
MergeInto(found, servers, t) ==
    IF servers = <<>> THEN found
    ELSE LET server == Head(servers)
             key == ServerKey(server.ip, server.port)
         IN MergeInto(IF key \in DOMAIN found
                         THEN [found EXCEPT ![key] = RefreshEntry(@, server, t)]
                         ELSE found @@ (key :> NewEntry(server, t)),
                      Tail(servers), t)

\* _mark_offline_servers, line 128 (a last_seen of None or 0 is false)
IsStale_Millis(server, t) == server.last_seen # 0 /\ (t - server.last_seen) > max_cache_age * 1000

IsStale(server, t) == server.last_seen # 0 /\ (t - server.last_seen) > max_cache_age

\* _mark_offline_servers, lines 122-130
MarkOfflineServers_Evicts(found, t) ==
    [k \in {j \in DOMAIN found : ~IsStale(found[j], t)} |-> found[k]]

MarkOfflineServers(found, t) ==
    [k \in DOMAIN found |->
        IF IsStale(found[k], t) THEN [found[k] EXCEPT !.is_online = FALSE] ELSE found[k]]

\* list(self.found_servers.values()), get_online_servers, get_server_by_address,
\* on the registry `found`; <<>> is None
ListAll(found) == {found[k] : k \in DOMAIN found}

GetOnlineServers(found) == {server \in ListAll(found) : server.is_online}

GetServerByAddress(found, ip, port) ==
    IF ServerKey(ip, port) \in DOMAIN found
       THEN <<found[ServerKey(ip, port)]>>
       ELSE <<>>

\* The events of a round
Event(kind, wait, ip, data) == [kind |-> kind, wait |-> wait, ip |-> ip, data |-> data]

SeqsUpTo(S, n) == UNION {[1..k -> S] : k \in 0..n}

\* Rounds of the registry's specification: well-formed replies, 100 ms apart
RegistryEvents ==
    {Event("dgram", 100, ip, data) :
        ip \in Hosts, data \in {RespAlpha, RespGamma, RespBeta}}

RegistryRounds == {[sockfail |-> FALSE, evs |-> evs] : evs \in SeqsUpTo(RegistryEvents, MaxReplies)}

\* Rounds of the prober's specification: any payload, early and late, receive errors
ProbeEvents ==
    {Event("dgram", wait, ip, data) :
        wait \in {100, 2900}, ip \in Hosts,
        data \in {RespAlpha, RespGamma, RespBeta, RespNoName, RespNoPort, RespWrongType, NotJson}}
    \cup {Event("oserror", wait, "", NotJson) : wait \in {100, 2900}}

ProbeRounds ==
    {[sockfail |-> FALSE, evs |-> evs] : evs \in SeqsUpTo(ProbeEvents, MaxReplies)}
    \cup {[sockfail |-> TRUE, evs |-> <<>>]}

NoRound == [sockfail |-> FALSE, evs |-> <<>>]

\* ServerDiscovery.__init__, lines 39-55, and BroadcastClient.__init__, lines 20-31
DiscoveryInit ==
    /\ found_servers = EmptyRegistry
    /\ timeout = DefaultTimeout
    /\ now = Now0
    /\ lastOp = "none"
    /\ lastRound = NoRound
    /\ wasEmpty = TRUE

\* discover(), lines 57-95: probe, merge, sweep
DiscoverBody(round) ==
    /\ found_servers' =
          MarkOfflineServers(
              MergeInto(found_servers, DiscoverServers(round, timeout, now).servers, now), now)
    /\ lastOp' = "discover"
    /\ lastRound' = round
    /\ wasEmpty' = (found_servers = EmptyRegistry)
    /\ UNCHANGED <<timeout, now>>

Discover(round) ==
    /\ UNCHANGED notDiscovery
    /\ DiscoverBody(round)

\* quick_discover(), lines 97-120: the same round under the short timeout, which is
\* set for the round and restored after it
QuickDiscover(round) ==
    /\ UNCHANGED notDiscovery
    /\ found_servers' =
          MarkOfflineServers(
              MergeInto(found_servers, DiscoverServers(round, QuickTimeout, now).servers, now), now)
    /\ timeout' = timeout
    /\ lastOp' = "quick"
    /\ lastRound' = round
    /\ wasEmpty' = (found_servers = EmptyRegistry)
    /\ UNCHANGED now

\* clear_cache(), lines 215-218
ClearCache ==
    /\ UNCHANGED notDiscovery
    /\ found_servers' = EmptyRegistry
    /\ lastOp' = "clear"
    /\ lastRound' = NoRound
    /\ wasEmpty' = (found_servers = EmptyRegistry)
    /\ UNCHANGED <<timeout, now>>

\* Time passes between operations
Tick ==
    /\ UNCHANGED notDiscovery
    /\ \E dt \in {max_cache_age, max_cache_age + PastLimit} :
          /\ now + dt <= MaxTime
          /\ now' = now + dt
    /\ lastOp' = "tick"
    /\ lastRound' = NoRound
    /\ wasEmpty' = (found_servers = EmptyRegistry)
    /\ UNCHANGED <<found_servers, timeout>>

DiscoveryNext ==
    \/ \E round \in RegistryRounds : Discover(round)
    \/ \E round \in RegistryRounds : QuickDiscover(round)
    \/ ClearCache
    \/ Tick

\* ------------------------------------------------------------- one probe round

ProbePending == [done |-> FALSE, servers |-> <<>>, raised |-> FALSE, ndgrams |-> 0, elapsed |-> 0]

ProbeInit0 ==
    /\ probeIn = [round |-> NoRound, to |-> DefaultTimeout]
    /\ probeOut = ProbePending

ProbeInit ==
    /\ probeIn \in [round : ProbeRounds, to : {DefaultTimeout, QuickTimeout}]
    /\ probeOut = ProbePending

\* BroadcastClient.discover_servers() is called with the round's events
RunProbe ==
    /\ UNCHANGED notProbe
    /\ ~probeOut.done
    /\ probeOut' = DiscoverServers(probeIn.round, probeIn.to, Now0)
    /\ UNCHANGED probeIn

ProbeNext == RunProbe


\* ------------------------------------------------------- continuous discovery

LoopThreads == 1..MaxLoops
Subs == 1..MaxSubs

\* The rounds a background iteration is run on: no reply, or one
LoopRounds ==
    {[sockfail |-> FALSE, evs |-> evs] :
        evs \in {<<>>, <<Event("dgram", 100, "10.0.0.1", RespAlpha)>>}}

\* ServerDiscovery.__init__, lines 50-53
ContinuousInit ==
    /\ is_discovering = FALSE
    /\ discovery_thread = 0
    /\ lpc = [t \in LoopThreads |-> "unborn"]
    /\ lservers = [t \in LoopThreads |-> {}]
    /\ lcalled = [t \in LoopThreads |-> {}]
    /\ callbacks = {}
    /\ joining = FALSE
    /\ waited = 0
    /\ lfound = [t \in LoopThreads |-> 0]
    /\ lraised = [t \in LoopThreads |-> FALSE]

\* The test of start_continuous_discovery, line 136
StartGuard_Never == FALSE

StartGuard == is_discovering

\* A loop thread has been started and has not returned
LoopRunning(t) == lpc[t] \notin {"unborn", "done"}

\* start_continuous_discovery(), lines 132-147
StartContinuousDiscovery ==
    /\ UNCHANGED <<notContinuous, dvars>>
    /\ ~joining
    /\ IF StartGuard
          THEN UNCHANGED <<is_discovering, discovery_thread, lpc>>
          ELSE \E t \in LoopThreads :
                  /\ lpc[t] = "unborn"
                  /\ \A k \in LoopThreads : k < t => lpc[k] # "unborn"
                  /\ is_discovering' = TRUE
                  /\ discovery_thread' = t
                  /\ lpc' = [lpc EXCEPT ![t] = "test"]
    /\ UNCHANGED <<lservers, lcalled, callbacks, joining, waited, lfound, lraised>>

\* The loop's test, line 151
LoopIterate(t) ==
    /\ UNCHANGED <<notContinuous, dvars>>
    /\ lpc[t] = "test"
    /\ lpc' = [lpc EXCEPT ![t] = IF is_discovering THEN "discover" ELSE "done"]
    /\ UNCHANGED <<is_discovering, discovery_thread, lservers, lcalled, callbacks, joining,
                   waited, lfound, lraised>>

\* servers = self.discover() and the test of line 156
LoopDiscover(t, round) ==
    /\ UNCHANGED notContinuous
    /\ lpc[t] = "discover"
    /\ DiscoverBody(round)
    /\ lservers' = [lservers EXCEPT ![t] = ListAll(found_servers')]
    /\ lfound' = [lfound EXCEPT ![t] = Len(DiscoverServers(round, timeout, now).servers)]
    /\ lcalled' = [lcalled EXCEPT ![t] = {}]
    /\ lraised' = [lraised EXCEPT ![t] = FALSE]
    /\ lpc' = [lpc EXCEPT ![t] =
          IF ListAll(found_servers') # {} /\ callbacks # {} THEN "notify" ELSE "sleep"]
    /\ UNCHANGED <<is_discovering, discovery_thread, callbacks, joining, waited>>

\* The callbacks still to call in this iteration, in list order
Pending(t) == callbacks \ lcalled[t]

\* Where the loop thread is after a callback returned or raised, lines 158-161:
\* the exception is caught inside the for loop
AfterCallback_LeavesFanOut(raises) == IF raises THEN "sleep" ELSE "notify"

AfterCallback(raises) == "notify"

\* callback(servers), lines 157-161: it returns or raises, and the loop goes on
LoopNotify(t, raises) ==
    /\ UNCHANGED <<notContinuous, dvars>>
    /\ lpc[t] = "notify"
    /\ Pending(t) # {}
    /\ LET s == CHOOSE x \in Pending(t) : \A y \in Pending(t) : x <= y IN
          lcalled' = [lcalled EXCEPT ![t] = @ \cup {s}]
    /\ lraised' = [lraised EXCEPT ![t] = @ \/ raises]
    /\ lpc' = [lpc EXCEPT ![t] = AfterCallback(raises)]
    /\ UNCHANGED <<is_discovering, discovery_thread, lservers, callbacks, joining,
                   waited, lfound>>

\* The for loop is over: time.sleep(discovery_interval) begins, line 164
LoopSleep(t) ==
    /\ UNCHANGED <<notContinuous, dvars>>
    /\ lpc[t] = "notify"
    /\ Pending(t) = {}
    /\ lpc' = [lpc EXCEPT ![t] = "sleep"]
    /\ UNCHANGED <<is_discovering, discovery_thread, lservers, lcalled, callbacks, joining,
                   waited, lfound, lraised>>

\* time.sleep returns, and the thread is back at the test of line 151; what the
\* iteration held is dead
LoopWake(t) ==
    /\ UNCHANGED <<notContinuous, dvars>>
    /\ lpc[t] = "sleep"
    /\ lpc' = [lpc EXCEPT ![t] = "test"]
    /\ lservers' = [lservers EXCEPT ![t] = {}]
    /\ lcalled' = [lcalled EXCEPT ![t] = {}]
    /\ lfound' = [lfound EXCEPT ![t] = 0]
    /\ lraised' = [lraised EXCEPT ![t] = FALSE]
    /\ UNCHANGED <<is_discovering, discovery_thread, callbacks, joining, waited>>

\* stop_continuous_discovery(), lines 170-173: the flag, and join begins
StopContinuousDiscovery ==
    /\ UNCHANGED <<notContinuous, dvars>>
    /\ ~joining
    /\ is_discovering' = FALSE
    /\ joining' = (discovery_thread # 0)
    /\ waited' = 0
    /\ UNCHANGED <<discovery_thread, lpc, lservers, lcalled, callbacks, lfound, lraised>>

\* join(timeout=2) goes on waiting, line 174: a second passes while the loop thread
\* is inside discover(), a callback or time.sleep
JoinWait ==
    /\ UNCHANGED <<notContinuous, dvars>>
    /\ joining
    /\ LoopRunning(discovery_thread)
    /\ lpc[discovery_thread] # "test"
    /\ waited < JoinTimeout
    /\ waited' = waited + 1
    /\ UNCHANGED <<is_discovering, discovery_thread, lpc, lservers, lcalled, callbacks,
                   joining, lfound, lraised>>

\* join returns: the thread has ended, or the timeout has run out
JoinReturn ==
    /\ UNCHANGED <<notContinuous, dvars>>
    /\ joining
    /\ ~LoopRunning(discovery_thread) \/ waited >= JoinTimeout
    /\ joining' = FALSE
    /\ waited' = 0
    /\ UNCHANGED <<is_discovering, discovery_thread, lpc, lservers, lcalled, callbacks,
                   lfound, lraised>>

\* add_callback and remove_callback, lines 177-190
AddCallback(s) ==
    /\ UNCHANGED <<notContinuous, dvars>>
    /\ s \notin callbacks
    /\ callbacks' = callbacks \cup {s}
    /\ UNCHANGED <<is_discovering, discovery_thread, lpc, lservers, lcalled, joining,
                   waited, lfound, lraised>>

RemoveCallback(s) ==
    /\ UNCHANGED <<notContinuous, dvars>>
    /\ s \in callbacks
    /\ callbacks' = callbacks \ {s}
    /\ UNCHANGED <<is_discovering, discovery_thread, lpc, lservers, lcalled, joining,
                   waited, lfound, lraised>>

ContinuousNext ==
    \/ StartContinuousDiscovery
    \/ \E t \in LoopThreads : LoopIterate(t)
    \/ \E t \in LoopThreads, round \in LoopRounds : LoopDiscover(t, round)
    \/ \E t \in LoopThreads, raises \in {TRUE, FALSE} : LoopNotify(t, raises)
    \/ \E t \in LoopThreads : LoopSleep(t)
    \/ \E t \in LoopThreads : LoopWake(t)
    \/ StopContinuousDiscovery
    \/ JoinWait
    \/ JoinReturn
    \/ \E s \in Subs : AddCallback(s)
    \/ \E s \in Subs : RemoveCallback(s)
    \/ Tick


\* ----------------------------------------------------------- inbound frames

\* Frames: a text that is not JSON, JSON that is not an object, or a JSON object
MessageTypes == {"user_status_update", "auth_response", "ping", "pong", "new_message", "typing"}

TextFrames == {[kind |-> "text", text |-> x] : x \in {"pong", "ping", "hello"}}

NonObjectFrames == {[kind |-> "nonobject", text |-> x] : x \in {"[1]", "5"}}

ObjectFrames ==
    {[kind |-> "object", data |-> [type |-> ty, user_id |-> u, status |-> st]] :
        ty \in MessageTypes, u \in {1, 2}, st \in {"success", "failed"}}
    \cup {[kind |-> "object", data |-> [user_id |-> u]] : u \in {1, 2}}

Frames == TextFrames \cup NonObjectFrames \cup ObjectFrames

\* What _handle_message did: the data emitted on status_updated and on
\* message_received, the frames sent, and whether an exception left the handler
NoDispatch == [done |-> TRUE, status |-> <<>>, message |-> <<>>, sent |-> <<>>, raised |-> FALSE]

\* lines 180-185: the auth response is logged
OnAuthResponse_Forwards(data) == [NoDispatch EXCEPT !.message = <<data>>]

OnAuthResponse(data) == NoDispatch

\* _handle_message, lines 167-196. json.loads raises on a text that is not JSON
\* (lines 193-194); data.get raises on JSON that is not an object and ws.send may
\* raise (lines 195-196); every exception is caught.
HandleMessage(frame, sendOk) ==
    IF frame.kind = "text" THEN NoDispatch
    ELSE IF frame.kind = "nonobject" THEN NoDispatch
    ELSE LET data == frame.data
             message_type == Get(data, "type", "unknown")
         IN IF message_type = "user_status_update" THEN [NoDispatch EXCEPT !.status = <<data>>]
            ELSE IF message_type = "auth_response" THEN OnAuthResponse(data)
            ELSE IF message_type = "ping"
                 THEN IF sendOk THEN [NoDispatch EXCEPT !.sent = <<"pong">>] ELSE NoDispatch
            ELSE [NoDispatch EXCEPT !.message = <<data>>]

DispatchPending == [done |-> FALSE, status |-> <<>>, message |-> <<>>, sent |-> <<>>, raised |-> FALSE]

DispatchInit0 ==
    /\ msgIn = [frame |-> [kind |-> "text", text |-> "pong"], sendOk |-> TRUE]
    /\ msgOut = DispatchPending

DispatchInit ==
    /\ msgIn \in [frame : Frames, sendOk : {TRUE, FALSE}]
    /\ msgOut = DispatchPending

\* await self._handle_message(message), line 112
RunHandleMessage ==
    /\ UNCHANGED notDispatch
    /\ ~msgOut.done
    /\ msgOut' = HandleMessage(msgIn.frame, msgIn.sendOk)
    /\ UNCHANGED msgIn

DispatchNext == RunHandleMessage


\* ---------------------------------------------------------------- responder

ListenerThreads == 1..MaxStarts
Requests == 1..MaxRequests
Senders == {"10.0.0.7", "10.0.0.8"}

\* Datagrams: a discovery request, another JSON object, bytes that are not JSON
ReqDiscovery == [type |-> "discovery", client_version |-> "1.0"]

ReqOther == [type |-> "hello"]

ReqNotJson == [malformed |-> TRUE]

Payloads == {ReqDiscovery, ReqOther, ReqNotJson}

server_name == "Local Messenger Server"

NoHandler == [pc |-> "none", sender |-> "", payload |-> ReqNotJson]

\* BroadcastServer.__init__, lines 43-53
ResponderInit ==
    /\ is_running = FALSE
    /\ socket = 0
    /\ thread = 0
    /\ sopen = {}
    /\ rpc = [l \in ListenerThreads |-> "unborn"]
    /\ rsock = [l \in ListenerThreads |-> 0]
    /\ rtimer = [l \in ListenerThreads |-> 0]
    /\ spc = "idle"
    /\ jwaited = 0
    /\ handlers = [q \in Requests |-> NoHandler]
    /\ replies = {}

\* start(), lines 57-80: a new socket, the flag, a new listener thread
ResponderStart ==
    /\ UNCHANGED notResponder
    /\ spc = "idle"
    /\ IF is_running
          THEN UNCHANGED <<is_running, socket, thread, sopen, rpc>>
          ELSE \E l \in ListenerThreads :
                  /\ rpc[l] = "unborn"
                  /\ \A k \in ListenerThreads : k < l => rpc[k] # "unborn"
                  /\ socket' = l
                  /\ sopen' = sopen \cup {l}
                  /\ is_running' = TRUE
                  /\ thread' = l
                  /\ rpc' = [rpc EXCEPT ![l] = "test"]
    /\ UNCHANGED <<rsock, rtimer, spc, jwaited, handlers, replies>>

\* The test of the listen loop, line 108
ListenGuard_Always == TRUE

ListenGuard == is_running /\ socket # 0

ListenTest(l) ==
    /\ UNCHANGED notResponder
    /\ rpc[l] = "test"
    /\ rpc' = [rpc EXCEPT ![l] = IF ListenGuard THEN "call" ELSE "done"]
    /\ UNCHANGED <<is_running, socket, thread, sopen, rsock, rtimer, spc, jwaited, handlers,
                   replies>>

\* self.socket.recvfrom(1024) is called, line 111: on None it raises AttributeError
\* (caught at line 128, then sleep), on a closed socket OSError (line 124, break)
ListenCall(l) ==
    /\ UNCHANGED notResponder
    /\ rpc[l] = "call"
    /\ rtimer' = [rtimer EXCEPT ![l] = 0]
    /\ IF socket = 0
          THEN rpc' = [rpc EXCEPT ![l] = "sleep"] /\ UNCHANGED rsock
          ELSE IF socket \notin sopen
                  THEN rpc' = [rpc EXCEPT ![l] = "done"] /\ UNCHANGED rsock
                  ELSE /\ rpc' = [rpc EXCEPT ![l] = "recv"]
                       /\ rsock' = [rsock EXCEPT ![l] = socket]
    /\ UNCHANGED <<is_running, socket, thread, sopen, spc, jwaited, handlers, replies>>

\* A datagram arrives, lines 111-119: a handler thread is started for it
ListenDatagram(l, sender, payload) ==
    /\ UNCHANGED notResponder
    /\ rpc[l] = "recv"
    /\ rsock[l] \in sopen
    /\ \E q \in Requests :
          /\ handlers[q].pc = "none"
          /\ \A k \in Requests : k < q => handlers[k].pc # "none"
          /\ handlers' = [handlers EXCEPT ![q] =
                            [pc |-> "parse", sender |-> sender, payload |-> payload]]
    /\ rpc' = [rpc EXCEPT ![l] = "test"]
    /\ rtimer' = [rtimer EXCEPT ![l] = 0]
    /\ UNCHANGED <<is_running, socket, thread, sopen, rsock, spc, jwaited, replies>>

\* socket.timeout after SocketTimeout seconds, lines 121-123
ListenTimeout(l) ==
    /\ UNCHANGED notResponder
    /\ rpc[l] = "recv"
    /\ rtimer[l] >= SocketTimeout
    /\ rpc' = [rpc EXCEPT ![l] = "test"]
    /\ rtimer' = [rtimer EXCEPT ![l] = 0]
    /\ UNCHANGED <<is_running, socket, thread, sopen, rsock, spc, jwaited, handlers, replies>>

\* recvfrom fails because its socket has been closed, lines 124-127
ListenSocketError(l) ==
    /\ UNCHANGED notResponder
    /\ rpc[l] = "recv"
    /\ rsock[l] \notin sopen
    /\ rpc' = [rpc EXCEPT ![l] = "done"]
    /\ rtimer' = [rtimer EXCEPT ![l] = 0]
    /\ UNCHANGED <<is_running, socket, thread, sopen, rsock, spc, jwaited, handlers, replies>>

\* time.sleep(1) returns, line 130
ListenPauseDone(l) ==
    /\ UNCHANGED notResponder
    /\ rpc[l] = "sleep"
    /\ rtimer[l] >= ErrorPause
    /\ rpc' = [rpc EXCEPT ![l] = "test"]
    /\ rtimer' = [rtimer EXCEPT ![l] = 0]
    /\ UNCHANGED <<is_running, socket, thread, sopen, rsock, spc, jwaited, handlers, replies>>

\* _handle_request wants to answer, lines 143-145
WantsReply_Any(payload) == "malformed" \notin DOMAIN payload

WantsReply(payload) ==
    "malformed" \notin DOMAIN payload /\ Get(payload, "type", "") = "discovery"

\* _handle_request up to the call of _send_server_info, lines 142-152
HandleRequest(q) ==
    /\ UNCHANGED notResponder
    /\ handlers[q].pc = "parse"
    /\ handlers' = [handlers EXCEPT ![q].pc =
                      IF WantsReply(handlers[q].payload) THEN "check" ELSE "done"]
    /\ UNCHANGED <<is_running, socket, thread, sopen, rpc, rsock, rtimer, spc, jwaited, replies>>

\* The response of _send_server_info, lines 162-181
ServerResponse ==
    [type |-> "server_response", name |-> server_name, port |-> server_port,
     users_count |-> OnlineUsers]

\* if self.socket, line 184
SendCheck(q) ==
    /\ UNCHANGED notResponder
    /\ handlers[q].pc = "check"
    /\ handlers' = [handlers EXCEPT ![q].pc = IF socket # 0 THEN "sendto" ELSE "done"]
    /\ UNCHANGED <<is_running, socket, thread, sopen, rpc, rsock, rtimer, spc, jwaited, replies>>

\* self.socket.sendto(response_data, addr), line 186: AttributeError on None and
\* OSError on a closed socket are caught at line 188
SendTo(q) ==
    /\ UNCHANGED notResponder
    /\ handlers[q].pc = "sendto"
    /\ handlers' = [handlers EXCEPT ![q].pc = "done"]
    /\ replies' = IF socket # 0 /\ socket \in sopen
                     THEN replies \cup {[req |-> q, to |-> handlers[q].sender,
                                         sock |-> socket, data |-> ServerResponse]}
                     ELSE replies
    /\ UNCHANGED <<is_running, socket, thread, sopen, rpc, rsock, rtimer, spc, jwaited>>

\* stop(), line 89
StopFlag ==
    /\ UNCHANGED notResponder
    /\ spc = "idle"
    /\ is_running' = FALSE
    /\ spc' = IF socket # 0 THEN "close" ELSE "join"
    /\ jwaited' = 0
    /\ UNCHANGED <<socket, thread, sopen, rpc, rsock, rtimer, handlers, replies>>

\* stop(), lines 92-95
StopClose ==
    /\ UNCHANGED notResponder
    /\ spc = "close"
    /\ sopen' = sopen \ {socket}
    /\ spc' = "clear"
    /\ UNCHANGED <<is_running, socket, thread, rpc, rsock, rtimer, jwaited, handlers, replies>>

\* stop(), line 96
StopClear ==
    /\ UNCHANGED notResponder
    /\ spc = "clear"
    /\ socket' = 0
    /\ spc' = "join"
    /\ UNCHANGED <<is_running, thread, sopen, rpc, rsock, rtimer, jwaited, handlers, replies>>

\* The listener that stop() joins has ended
Joined == IF thread = 0 THEN TRUE ELSE rpc[thread] = "done"

\* stop(), lines 98-102: join returns when the thread has ended or the timeout is over
StopReturn ==
    /\ UNCHANGED notResponder
    /\ spc = "join"
    /\ Joined \/ jwaited >= StopJoinTimeout
    /\ thread' = 0
    /\ spc' = "idle"
    /\ jwaited' = 0
    /\ UNCHANGED <<is_running, socket, sopen, rpc, rsock, rtimer, handlers, replies>>

\* A listener is blocked in recvfrom or in sleep
Blocked(l) == rpc[l] \in {"recv", "sleep"}

\* Nothing that takes no time is pending: the listeners are blocked or not running,
\* no timeout is due, and stop() is idle or waiting in join
CanWait ==
    /\ \A l \in ListenerThreads :
          /\ rpc[l] \in {"unborn", "done", "recv", "sleep"}
          /\ rpc[l] = "recv" => rtimer[l] < SocketTimeout
          /\ rpc[l] = "sleep" => rtimer[l] < ErrorPause
    /\ spc \in {"idle", "join"}
    /\ spc = "join" => ~Joined /\ jwaited < StopJoinTimeout

\* One second passes
ResponderTick ==
    /\ UNCHANGED notResponder
    /\ CanWait
    /\ \E l \in ListenerThreads : Blocked(l)
    /\ rtimer' = [l \in ListenerThreads |-> IF Blocked(l) THEN rtimer[l] + 1 ELSE rtimer[l]]
    /\ jwaited' = IF spc = "join" THEN jwaited + 1 ELSE jwaited
    /\ UNCHANGED <<is_running, socket, thread, sopen, rpc, rsock, spc, handlers, replies>>

ResponderNext ==
    \/ ResponderStart
    \/ \E l \in ListenerThreads : ListenTest(l)
    \/ \E l \in ListenerThreads : ListenCall(l)
    \/ \E l \in ListenerThreads, sender \in Senders, payload \in Payloads :
          ListenDatagram(l, sender, payload)
    \/ \E l \in ListenerThreads : ListenTimeout(l)
    \/ \E l \in ListenerThreads : ListenSocketError(l)
    \/ \E l \in ListenerThreads : ListenPauseDone(l)
    \/ \E q \in Requests : HandleRequest(q)
    \/ \E q \in Requests : SendCheck(q)
    \/ \E q \in Requests : SendTo(q)
    \/ StopFlag
    \/ StopClose
    \/ StopClear
    \/ StopReturn
    \/ ResponderTick

\* ------------------------------------------- concurrent quick discovery

\* DiscoveryWorker threads, server_browser_dialog.py lines 31-67, all on the
\* instance of get_discovery_instance()
Workers == 1..MaxWorkers

QuickInit ==
    /\ qpc = [w \in Workers |-> "idle"]
    /\ qsaved = [w \in Workers |-> 0]

\* original_timeout = self.broadcast_client.timeout, line 108
QuickSave(w) ==
    /\ UNCHANGED <<notQuick, dvars>>
    /\ qpc[w] = "idle"
    /\ qsaved' = [qsaved EXCEPT ![w] = timeout]
    /\ qpc' = [qpc EXCEPT ![w] = "set"]

\* self.broadcast_client.timeout = 1.5, line 109
QuickSet(w) ==
    /\ UNCHANGED notQuick
    /\ qpc[w] = "set"
    /\ timeout' = QuickTimeout
    /\ qpc' = [qpc EXCEPT ![w] = "probe"]
    /\ UNCHANGED <<found_servers, now, lastOp, lastRound, wasEmpty, qsaved>>

\* servers = self.discover(), line 111, under whatever the timeout is now
QuickProbe(w, round) ==
    /\ UNCHANGED notQuick
    /\ qpc[w] = "probe"
    /\ DiscoverBody(round)
    /\ qpc' = [qpc EXCEPT ![w] = "restore"]
    /\ UNCHANGED qsaved

\* What quick_discover leaves in the prober's timeout, line 114
RestoredTimeout(saved) == saved

\* self.broadcast_client.timeout = original_timeout; return servers, lines 114-116
QuickRestore(w) ==
    /\ UNCHANGED notQuick
    /\ qpc[w] = "restore"
    /\ timeout' = RestoredTimeout(qsaved[w])
    /\ qsaved' = [qsaved EXCEPT ![w] = 0]
    /\ qpc' = [qpc EXCEPT ![w] = "idle"]
    /\ UNCHANGED <<found_servers, now, lastOp, lastRound, wasEmpty>>

\* discover() called by another thread (a worker not in quick mode, the loop)
PlainDiscover(round) ==
    /\ UNCHANGED <<notQuick, qvars>>
    /\ DiscoverBody(round)

QuickNext ==
    \/ \E w \in Workers : QuickSave(w)
    \/ \E w \in Workers : QuickSet(w)
    \/ \E w \in Workers, round \in LoopRounds : QuickProbe(w, round)
    \/ \E w \in Workers : QuickRestore(w)
    \/ \E round \in LoopRounds : PlainDiscover(round)
    \/ Tick

\* --------------------------------------------------- the server's launch

\* What is typed at a password prompt, or given with --password; "" is nothing
Passwords == {"", "alpha", "beta"}

NoHash == <<>>

\* hashlib.sha256((password + salt).encode()).hexdigest(), server_config.py line 99
HashOf(password, salt) == <<"sha256", password, salt>>

\* The part of ServerConfig.config the launch reads and writes, lines 22-36
ConfigOf(protected, hash, salt) ==
    [password_protected |-> protected, password_hash |-> hash, salt |-> salt]

DefaultConfig == ConfigOf(FALSE, NoHash, "")

\* Configuration files a launch may find: none or an unprotected one, one protected
\* with a password, one marked protected without a hash
StoredConfigs ==
    {DefaultConfig, ConfigOf(TRUE, HashOf("alpha", "salt0"), "salt0"), ConfigOf(TRUE, NoHash, "")}

\* The command line, main.py lines 243-252, and the file
Launches ==
    [password_protected : {TRUE, FALSE}, password : Passwords, stored : StoredConfigs]

\* set_password, server_config.py lines 79-108
SetPassword(cfg, password) ==
    IF password = "" THEN ConfigOf(FALSE, NoHash, "")
    ELSE ConfigOf(TRUE, HashOf(password, "salt1"), "salt1")

\* verify_password, server_config.py lines 110-134
VerifyPassword(cfg, password) ==
    IF ~cfg.password_protected THEN TRUE
    ELSE IF cfg.password_hash = NoHash \/ cfg.salt = "" THEN FALSE
    ELSE HashOf(password, cfg.salt) = cfg.password_hash

\* is_protected and require_password, server_config.py lines 201-207
IsProtected(cfg) == cfg.password_protected

StartupInitFor(l) ==
    /\ launch = l
    /\ config = l.stored
    /\ disk = l.stored
    /\ mpc = "init"
    /\ attempt = 0
    /\ chosen = ""

\* A launch without arguments and without a file
StartupInit0 == StartupInitFor([password_protected |-> FALSE, password |-> "", stored |-> DefaultConfig])

StartupInit == \E l \in Launches : StartupInitFor(l)

\* init_server_config_from_args, server_config.py lines 244-291: the arguments
\* given are written into the configuration, and update_config saves it
InitServerConfigFromArgs ==
    /\ UNCHANGED notStartup
    /\ mpc = "init"
    /\ config' = IF launch.password_protected
                    THEN [config EXCEPT !.password_protected = TRUE]
                    ELSE config
    /\ disk' = config'
    /\ mpc' = "setup"
    /\ UNCHANGED <<launch, attempt, chosen>>

\* The test of main.py line 297
NeedsPasswordSetup == launch.password_protected /\ ~IsProtected(config)

\* main(), lines 296-325: the password is set from --password, or asked for twice
\* (typed, confirm) and saved; Ctrl-C at the prompt cancels the launch
SetupPassword(typed, confirm, interrupted) ==
    /\ UNCHANGED notStartup
    /\ mpc = "setup"
    /\ IF ~NeedsPasswordSetup
          THEN mpc' = "check" /\ UNCHANGED <<config, disk, chosen>>
          ELSE IF launch.password # ""
                  THEN /\ config' = SetPassword(config, launch.password)
                       /\ chosen' = launch.password
                       /\ mpc' = "check"
                       /\ UNCHANGED disk
          ELSE IF interrupted
                  THEN mpc' = "cancelled" /\ UNCHANGED <<config, disk, chosen>>
          ELSE IF typed # confirm \/ typed = ""
                  THEN mpc' = "failed" /\ UNCHANGED <<config, disk, chosen>>
          ELSE /\ config' = SetPassword(config, typed)
               /\ disk' = config'
               /\ chosen' = typed
               /\ mpc' = "check"
    /\ UNCHANGED <<launch, attempt>>

\* check_and_start_server, server_auth.py lines 98-137, one turn of its loop:
\* an empty or cancelled input uses up the attempt
CheckAndStartServer(typed) ==
    /\ UNCHANGED notStartup
    /\ mpc = "check"
    /\ IF ~IsProtected(config)
          THEN mpc' = "started" /\ UNCHANGED attempt
          ELSE IF typed # "" /\ VerifyPassword(config, typed)
                  THEN mpc' = "started" /\ UNCHANGED attempt
          ELSE /\ attempt' = attempt + 1
               /\ mpc' = IF attempt + 1 >= max_attempts THEN "failed" ELSE "check"
    /\ UNCHANGED <<launch, config, disk, chosen>>

StartupNext ==
    \/ InitServerConfigFromArgs
    \/ \E typed \in Passwords, confirm \in Passwords, interrupted \in {TRUE, FALSE} :
          SetupPassword(typed, confirm, interrupted)
    \/ \E typed \in Passwords : CheckAndStartServer(typed)

\* ------------------------------------------------------------ specifications

Init ==
    /\ SessionInit /\ DiscoveryInit /\ ProbeInit0 /\ ContinuousInit /\ DispatchInit0
    /\ ResponderInit /\ QuickInit /\ StartupInit0

ProbeSpecInit ==
    /\ SessionInit /\ DiscoveryInit /\ ProbeInit /\ ContinuousInit /\ DispatchInit0
    /\ ResponderInit /\ QuickInit /\ StartupInit0

DispatchSpecInit ==
    /\ SessionInit /\ DiscoveryInit /\ ProbeInit0 /\ ContinuousInit /\ DispatchInit
    /\ ResponderInit /\ QuickInit /\ StartupInit0

\* The session: its listener threads and its callers
SessionSpec == Init /\ [][SessionNext]_vars

\* A started listener thread takes its next step: its event loop is scheduled, and
\* every await of lines 84-148 returns or raises (connect, recv with timeout=25, sleep)
ListenerRuns(l) ==
    \/ LoopTest(l) \/ StartConnect(l) \/ ConnectOk(l) \/ ConnectFail(l) \/ BackoffDone(l)
    \/ SendAuth(l) \/ InnerTest(l) \/ RecvOk(l) \/ RecvTimeout(l) \/ RecvFail(l) \/ Exit(l)

\* The session with its listener threads scheduled
SessionLiveSpec == SessionSpec /\ WF_vars(\E l \in Listeners : ListenerRuns(l))

\* The registry: discovery rounds, cache clears and the clock
DiscoverySpec == Init /\ [][DiscoveryNext]_vars

\* One probe round on each input
ProbeSpec == ProbeSpecInit /\ [][ProbeNext]_vars

\* The background loop, its callers and its subscribers; the loop test of a thread
\* that is not blocked is taken, and join's timeout always runs out
ContinuousSpec ==
    /\ Init /\ [][ContinuousNext]_vars
    /\ WF_vars(\E t \in LoopThreads : LoopIterate(t))
    /\ WF_vars(JoinWait) /\ WF_vars(JoinReturn)

\* _handle_message on each frame
DispatchSpec == DispatchSpecInit /\ [][DispatchNext]_vars

\* A listener thread that is not blocked takes its next step
ListenerStep ==
    \E l \in ListenerThreads :
        \/ ListenTest(l) \/ ListenCall(l) \/ ListenTimeout(l) \/ ListenSocketError(l)
        \/ ListenPauseDone(l)

\* The caller inside stop() takes its next step
StopStep == StopClose \/ StopClear \/ StopReturn

\* The responder: its caller, its listener threads and its handler threads. The
\* threads are scheduled and time passes
ResponderSpec ==
    /\ Init /\ [][ResponderNext]_vars
    /\ WF_vars(ListenerStep) /\ WF_vars(StopStep) /\ WF_vars(ResponderTick)

\* quick_discover() and discover() called from several threads on one instance
QuickSpec == Init /\ [][QuickNext]_vars

StartupSpecInit ==
    /\ SessionInit /\ DiscoveryInit /\ ProbeInit0 /\ ContinuousInit /\ DispatchInit0
    /\ ResponderInit /\ QuickInit /\ StartupInit

\* One launch of the server process, for every command line and stored file
StartupSpec == StartupSpecInit /\ [][StartupNext]_vars

Next ==
    \/ SessionNext \/ DiscoveryNext \/ ProbeNext \/ ContinuousNext \/ DispatchNext
    \/ ResponderNext \/ QuickNext \/ StartupNext

Spec == Init /\ [][Next]_vars

\* ------------------------------------------------------------------ claims

\* A listener starts a connection attempt in this step (websockets.connect is called)
StartsAttempt(l) == pc[l] = "try" /\ pc'[l] = "connecting"

\* C1: once max_reconnect_attempts connection attempts in a row have failed, the
\* session is terminally disconnected - is_connected is false and the reconnect
\* counter equals the maximum - and no connection attempt is started any more.
C1_TerminalAfterMaxFailures ==
    [][/\ failStreak' >= max_reconnect_attempts =>
            ~is_connected' /\ reconnect_attempts' = max_reconnect_attempts
       /\ failStreak >= max_reconnect_attempts =>
            \A l \in Listeners : ~StartsAttempt(l)]_vars

\* C2: when the established connection of an Active listener fails (ping not sent,
\* connection closed, receive error), the step takes the session to Reconnecting
\* with the reconnect counter incremented by one, before any new attempt.
C2_ActiveLossGoesToReconnecting ==
    [][\A l \in Listeners :
          (pc[l] = "recv" /\ pc'[l] # "recv" /\ pc'[l] # "inner") =>
              /\ reconnect_attempts' = reconnect_attempts + 1
              /\ ~is_connected'
              /\ pc'[l] = "backoff" \/ reconnect_attempts' >= max_reconnect_attempts]_vars

\* C3: the delay before reconnect attempt N+1 is min(2*N, 10), N the counter after
\* the failure; every attempt but a listener's first is preceded by such a delay;
\* over consecutive failures the delays do not decrease and never exceed 10.
C3_BackoffBeforeEveryReconnect ==
    [][\A l \in Listeners :
          /\ (pc[l] # "backoff" /\ pc'[l] = "backoff") =>
                /\ delay'[l] = Min(2 * reconnect_attempts', 10)
                /\ delay'[l] <= 10
                /\ delay'[l] >= lastDelay
          /\ StartsAttempt(l) => via[l] \in {"start", "backoff"}]_vars

\* C4: once disconnect() has been called (running is false), no listener starts a
\* connection attempt, whatever state it was in and also after another connect().
C4_NoAttemptAfterDisconnect ==
    [][~running => \A l \in Listeners : ~StartsAttempt(l)]_vars

\* ---- the registry

\* The last step was a discovery round (discover() or quick_discover())
RoundDone == lastOp \in {"discover", "quick"}

\* The registry key of a reply, and the replies of a round that share it
ReplyKey(ev) == ev.ip \o ":" \o ToString(ev.data.port)

DistinctReplies(evs) ==
    \A i, j \in 1..Len(evs) : i # j => ReplyKey(evs[i]) # ReplyKey(evs[j])

LastForKey(evs, i) == \A j \in (i + 1)..Len(evs) : ReplyKey(evs[j]) # ReplyKey(evs[i])

\* C5: a discovery round all of whose replies are for (host,port) already in the
\* registry leaves the number of entries unchanged, and each such entry takes the
\* name, description and users_count of its (last) reply, is online and has
\* last_seen = now.
C5_MergeUpdatesExistingEntry ==
    [][RoundDone' =>
          LET evs == lastRound'.evs IN
          (\A i \in 1..Len(evs) : ReplyKey(evs[i]) \in DOMAIN found_servers) =>
              /\ Cardinality(DOMAIN found_servers') = Cardinality(DOMAIN found_servers)
              /\ \A i \in 1..Len(evs) : LastForKey(evs, i) =>
                    LET e == found_servers'[ReplyKey(evs[i])] IN
                    /\ e.name = evs[i].data.name
                    /\ e.description = Get(evs[i].data, "description", "")
                    /\ e.users_count = Get(evs[i].data, "users_count", 0)
                    /\ e.is_online
                    /\ e.last_seen = now']_vars

\* C6: after the aging sweep of a discovery round every entry that was in the
\* registry is still there, and every entry whose last_seen is more than
\* max_cache_age before now is offline, is in the full list and is what
\* get_server_by_address returns for its host and port.
C6_SweepMarksStaleOfflineAndKeeps ==
    [][RoundDone' =>
          /\ DOMAIN found_servers \subseteq DOMAIN found_servers'
          /\ \A k \in DOMAIN found_servers' :
                LET e == found_servers'[k] IN
                (now' - e.last_seen > max_cache_age) =>
                    /\ ~e.is_online
                    /\ e \in ListAll(found_servers')
                    /\ GetServerByAddress(found_servers', e.ip, e.port) = <<e>>]_vars

\* An entry last seen max_cache_age + PastLimit seconds ago has been swept: it is
\* offline and get_server_by_address returns it
C6_Witness ==
    /\ RoundDone
    /\ \E k \in DOMAIN found_servers :
          LET e == found_servers[k] IN
          /\ now - e.last_seen >= max_cache_age + PastLimit
          /\ ~e.is_online
          /\ GetServerByAddress(found_servers, e.ip, e.port) = <<e>>

\* C7: a discovery round that starts with an empty registry and whose replies have
\* pairwise distinct (host,port) leaves exactly one entry per reply and no other;
\* all are online, so the online list equals the full list, and the lookup by a
\* reply's (host,port) returns the entry with the reply's name.
C7_DistinctRepliesBecomeTheRegistry ==
    [][(RoundDone' /\ found_servers = EmptyRegistry /\ DistinctReplies(lastRound'.evs)) =>
          LET evs == lastRound'.evs IN
          /\ Cardinality(ListAll(found_servers')) = Len(evs)
          /\ GetOnlineServers(found_servers') = ListAll(found_servers')
          /\ \A i \in 1..Len(evs) :
                LET r == GetServerByAddress(found_servers', evs[i].ip, evs[i].data.port) IN
                /\ Len(r) = 1
                /\ r[1] \in ListAll(found_servers')
                /\ r[1].name = evs[i].data.name
                /\ r[1].ip = evs[i].ip
                /\ r[1].port = evs[i].data.port
                /\ r[1].is_online]_vars

\* Two replies from one host on two ports, into an empty registry: two entries
C7_Witness ==
    /\ RoundDone
    /\ wasEmpty
    /\ Len(lastRound.evs) = 2
    /\ lastRound.evs[1].ip = lastRound.evs[2].ip
    /\ lastRound.evs[1].data.port # lastRound.evs[2].data.port
    /\ Cardinality(ListAll(found_servers)) = 2
    /\ GetOnlineServers(found_servers) = ListAll(found_servers)
    /\ GetServerByAddress(found_servers, lastRound.evs[2].ip, RespBeta.port) # <<>>

\* C8: every step other than clear_cache() keeps every key of the registry, and
\* clear_cache() leaves the registry empty.
C8_OnlyClearCacheRemoves ==
    [][/\ lastOp' # "clear" => DOMAIN found_servers \subseteq DOMAIN found_servers'
       /\ lastOp' = "clear" => found_servers' = EmptyRegistry]_vars

\* A round that found nothing new has swept an entry seen before the clock moved,
\* and the entry is still in the registry
C8_Witness ==
    /\ RoundDone
    /\ lastRound.evs = <<>>
    /\ \E k \in DOMAIN found_servers : found_servers[k].last_seen < now

\* ---- the probe

\* C9: a probe round in which no datagram was received returns the empty list and
\* no exception reaches the caller.
C9_NoResponseReturnsEmptyList ==
    (probeOut.done /\ probeOut.ndgrams = 0) =>
        probeOut.servers = <<>> /\ ~probeOut.raised

\* The timeout ran out while a reply was still on its way
C9_Witness ==
    /\ probeOut.done
    /\ probeOut.ndgrams = 0
    /\ ~probeIn.round.sockfail
    /\ probeIn.round.evs # <<>>
    /\ probeIn.round.evs[1].kind = "dgram"
    /\ probeOut.elapsed = probeIn.to
    /\ probeOut.servers = <<>>
    /\ ~probeOut.raised

\* ---- sending

\* C10: a send_message() call made while no connection is established is answered
\* with the not-connected warning and its data is never transmitted, on no connection.
C10_SendWhileNotActiveFailsFast ==
    \A d \in Msgs : callState[d] = "inactive" => warned[d] /\ sentOn[d] = 0

\* ---- the end of the listener

\* A listener leaves _websocket_listener for good in this step (lines 134-137)
ExitsForGood(l) == pc[l] = "exit" /\ pc'[l] = "done"

\* C11: when a listener leaves its loop for good - the reconnect attempts are
\* exhausted, or disconnect() was called on a session that listener had made
\* active - the step asks the presence collaborator to mark the user offline.
C11_FinalExitMarksUserOffline ==
    [][\A l \in Listeners :
          (/\ ExitsForGood(l)
           /\ \/ reconnect_attempts >= max_reconnect_attempts
              \/ ~running /\ lws[l] # 0) =>
              offline_calls' = offline_calls + 1]_vars

\* ---- the frames the client sends

\* C12: on every connection the first frame the client sends is the auth message:
\* no keep-alive ping and no application frame is the first frame of a connection.
C12_AuthIsFirstFrame ==
    \A c \in 1..MaxConns : firstFrame[c] \in {"none", "auth"}

\* ---- the background loop

\* stop_continuous_discovery() begins its join in this step
StopBegins == ~joining /\ joining'

\* C13: while discovery is running no step creates a loop thread or replaces
\* discovery_thread (a second start is a no-op); a stop of a stopped discovery
\* changes neither the flag nor any loop thread; and the join of a stop waits at
\* most JoinTimeout seconds and always returns, whether the loop has exited or not.
C13_StartStopIdempotent ==
    /\ [][/\ is_discovering =>
                /\ discovery_thread' = discovery_thread
                /\ \A t \in LoopThreads : lpc[t] = "unborn" => lpc'[t] = "unborn"
          /\ (StopBegins /\ ~is_discovering) =>
                /\ ~is_discovering'
                /\ UNCHANGED <<discovery_thread, lpc, callbacks, found_servers>>]_vars
    /\ [](waited <= JoinTimeout)
    /\ (joining ~> ~joining)

\* stop has returned while the loop it stopped is still asleep
C13_Witness ==
    /\ ~joining
    /\ ~is_discovering
    /\ discovery_thread # 0
    /\ lpc[discovery_thread] = "sleep"

\* ---- the descriptors of a probe

\* The reply that descriptor `server` was made from is datagram j of the round
CarriedBy(server, j) ==
    LET ev == probeIn.round.evs[j] IN
    /\ ev.kind = "dgram"
    /\ "name" \in DOMAIN ev.data /\ ev.data.name = server.name
    /\ "port" \in DOMAIN ev.data /\ ev.data.port = server.port
    /\ Get(ev.data, "description", "") = server.description

\* C14: the host of every descriptor a probe returns is the sender address of a
\* datagram that carried its reply, whatever the payload says (an "ip" field
\* included), so its registry key is the sender's address and the reply's port.
C14_HostIsSenderAddress ==
    probeOut.done =>
        \A i \in 1..Len(probeOut.servers) :
            LET server == probeOut.servers[i] IN
            \E j \in 1..Len(probeIn.round.evs) :
                /\ CarriedBy(server, j)
                /\ server.ip = probeIn.round.evs[j].ip
                /\ ServerKey(server.ip, server.port)
                     = ServerKey(probeIn.round.evs[j].ip, probeIn.round.evs[j].data.port)

\* Two replies from one sender, one of them naming another host in its payload:
\* both descriptors carry the sender's address
C14_Witness ==
    /\ probeOut.done
    /\ Len(probeOut.servers) = 2
    /\ Len(probeIn.round.evs) = 2
    /\ probeOut.servers[1].name = "Alpha"
    /\ probeOut.servers[2].name = "Gamma"
    /\ probeIn.round.evs[2].data.ip # probeIn.round.evs[2].ip
    /\ probeOut.servers[1].ip = probeOut.servers[2].ip
    /\ probeOut.servers[2].ip = probeIn.round.evs[2].ip

\* ---- the notifications of the session

\* connection_changed(True) is emitted in this step (line 93). Every assignment to
\* is_connected is followed by the emission of the value assigned (lines 91-93,
\* 141-142, 216-217, 223-224), so is_connected is the last notification emitted.
EmitsConnected(l) == pc[l] = "connecting" /\ pc'[l] = "auth"

\* C15: when a listener that has lost an established connection reconnects, its
\* connection_changed(true) does not follow a connection_changed(true): the loss
\* was notified by a connection_changed(false) in between.
C15_NotificationsAlternate ==
    [][\A l \in Listeners : (EmitsConnected(l) /\ lws[l] # 0) => ~is_connected]_vars

\* ---- what the subscribers receive

\* C16: whenever a loop thread is calling the subscribers, the list it hands them
\* is not empty and holds no entry with is_online = FALSE.
C16_SubscribersGetOnlineList ==
    \A t \in LoopThreads :
        lpc[t] = "notify" =>
            /\ lservers[t] # {}
            /\ \A server \in lservers[t] : server.is_online

\* ---- the dispatch of inbound frames

IsObject(frame) == frame.kind = "object"

TypeOf(frame) == Get(frame.data, "type", "unknown")

ToStatusOnly == msgOut.status = <<msgIn.frame.data>> /\ msgOut.message = <<>> /\ msgOut.sent = <<>>

ToMessageOnly == msgOut.message = <<msgIn.frame.data>> /\ msgOut.status = <<>> /\ msgOut.sent = <<>>

Dropped == msgOut.status = <<>> /\ msgOut.message = <<>> /\ msgOut.sent = <<>>

PongOnly == msgOut.sent = <<"pong">> /\ msgOut.status = <<>> /\ msgOut.message = <<>>

\* C17 as stated: a user_status_update goes only to the status observer, a ping is
\* answered with exactly one pong (on a connection that can be sent on) and
\* forwarded to no observer, a pong is dropped, any other well-formed message goes
\* only to the message observer, and a frame that cannot be parsed is dropped; the
\* handler never raises.
C17_DispatchAsStated ==
    msgOut.done =>
        LET frame == msgIn.frame IN
        /\ ~msgOut.raised
        /\ (IsObject(frame) /\ TypeOf(frame) = "ping" /\ msgIn.sendOk) => PongOnly
        /\ (IsObject(frame) /\ TypeOf(frame) = "user_status_update") => ToStatusOnly
        /\ (frame.kind = "text" /\ frame.text = "pong") => Dropped
        /\ (IsObject(frame) /\ TypeOf(frame) \notin {"user_status_update", "ping", "pong"})
              => ToMessageOnly
        /\ (frame.kind = "text" /\ frame.text # "pong") => Dropped

\* C17 as amended: as stated, except that an auth_response goes to no observer
\* (it is only logged). When the pong cannot be sent the ping is dropped, and JSON
\* that is not an object is dropped like a frame that cannot be parsed.
C17_DispatchByType ==
    msgOut.done =>
        LET frame == msgIn.frame IN
        /\ ~msgOut.raised
        /\ (IsObject(frame) /\ TypeOf(frame) = "user_status_update") => ToStatusOnly
        /\ (IsObject(frame) /\ TypeOf(frame) = "auth_response") => Dropped
        /\ (IsObject(frame) /\ TypeOf(frame) = "ping") =>
              IF msgIn.sendOk THEN PongOnly ELSE Dropped
        /\ (frame.kind = "text" /\ frame.text = "pong") => Dropped
        /\ (IsObject(frame)
              /\ TypeOf(frame) \notin {"user_status_update", "auth_response", "ping", "pong"})
              => ToMessageOnly
        /\ ~IsObject(frame) => Dropped

\* An auth_response has been handled: no observer got it and nothing was sent
C17_Witness ==
    /\ msgOut.done
    /\ IsObject(msgIn.frame)
    /\ TypeOf(msgIn.frame) = "auth_response"
    /\ Dropped
    /\ ~msgOut.raised

\* ---- the duration of a probe

\* When event j of the round happens, milliseconds after the request was sent
RECURSIVE ArrivalTime(_, _)
ArrivalTime(evs, j) == IF j = 0 THEN 0 ELSE ArrivalTime(evs, j - 1) + evs[j].wait

WellFormed(data) ==
    /\ "malformed" \notin DOMAIN data
    /\ Get(data, "type", "") = "server_response"
    /\ "name" \in DOMAIN data /\ "port" \in DOMAIN data

NoReceiveError(evs) == \A j \in 1..Len(evs) : evs[j].kind = "dgram"

\* Every well-formed reply that arrived within the timeout is in the result
C18_RepliesInWindowReturned ==
    (probeOut.done /\ ~probeIn.round.sockfail /\ NoReceiveError(probeIn.round.evs)) =>
        \A j \in 1..Len(probeIn.round.evs) :
            LET ev == probeIn.round.evs[j] IN
            (WellFormed(ev.data) /\ ArrivalTime(probeIn.round.evs, j) < probeIn.to) =>
                \E i \in 1..Len(probeOut.servers) :
                    CarriedBy(probeOut.servers[i], j) /\ probeOut.servers[i].ip = ev.ip

\* C18: a probe round ends no later than the timeout after the request was sent,
\* however many replies arrive and whenever, and every well-formed reply that
\* arrived within the timeout is in the returned list.
C18_RoundBoundedByTimeout ==
    /\ probeOut.done => probeOut.elapsed <= probeIn.to
    /\ C18_RepliesInWindowReturned

\* The replies sent for datagram q
RepliesTo(q) == {r \in replies : r.req = q}

\* The handler thread of datagram q ends in this step
HandlerEnds(q) == handlers[q].pc # "done" /\ handlers'[q].pc = "done"

C20_StopEndsTheListenLoop ==
    /\ \A l \in ListenerThreads : (thread = l /\ spc # "idle") ~> (rpc[l] = "done")
    /\ (spc # "idle") ~> (spc = "idle")
    /\ [](jwaited <= StopJoinTimeout)
    /\ [][(spc = "join" /\ spc' = "idle") => Joined]_vars
    /\ [][replies' # replies => spc \notin {"clear", "join"} /\ socket \in sopen]_vars

\* stop() ran between the loop test and the receive: the listener met the None socket
C20_Witness ==
    /\ spc = "join"
    /\ thread # 0
    /\ rpc[thread] = "sleep"
    /\ \E q \in Requests : handlers[q].pc = "done" /\ handlers[q].payload = ReqDiscovery
                           /\ RepliesTo(q) = {}

\* No listener thread is inside _websocket_listener
ListenersEnded == \A l \in Listeners : pc[l] \in {"idle", "done"}

\* C21: after disconnect(), in whatever state it was called, every listener task
\* eventually leaves _websocket_listener by itself.
C21_DisconnectEndsListener == (~running) ~> ListenersEnded

C21_Witness ==
    /\ ~running
    /\ ListenersEnded
    /\ \E l \in Listeners : pc[l] = "done" /\ via[l] = "stopped"
    /\ offline_calls = 0

\* The datagrams of the round that are well-formed replies
WellFormedReplies(evs) == {j \in 1..Len(evs) : WellFormed(evs[j].data)}

\* C22: a malformed probe reply (not JSON, another type, no name or no port) is
\* skipped: no descriptor in the result comes from it, the result holds no more
\* descriptors than well-formed replies arrived, and every well-formed reply
\* that arrives after it within the window is returned.
C22_MalformedReplySkipped ==
    (probeOut.done /\ ~probeIn.round.sockfail /\ NoReceiveError(probeIn.round.evs)) =>
        LET evs == probeIn.round.evs IN
        /\ ~probeOut.raised
        /\ Len(probeOut.servers) <= Cardinality(WellFormedReplies(evs))
        /\ \A i \in 1..Len(probeOut.servers) :
              \E j \in WellFormedReplies(evs) : CarriedBy(probeOut.servers[i], j)
        /\ \A j \in 1..Len(evs) : ~WellFormed(evs[j].data) =>
              \A k \in WellFormedReplies(evs) :
                 (k > j /\ ArrivalTime(evs, k) < probeIn.to) =>
                    \E i \in 1..Len(probeOut.servers) :
                        CarriedBy(probeOut.servers[i], k) /\ probeOut.servers[i].ip = evs[k].ip

C22_Witness ==
    /\ probeOut.done
    /\ Len(probeIn.round.evs) = 2
    /\ NoReceiveError(probeIn.round.evs)
    /\ probeIn.round.evs[1].data = NotJson
    /\ WellFormed(probeIn.round.evs[2].data)
    /\ ArrivalTime(probeIn.round.evs, 2) < probeIn.to
    /\ Len(probeOut.servers) = 1

C24_ConnectedIffEstablished ==
    running => (is_connected <=> \E l \in Listeners : Established(l))

\* C25: once disconnect() has been called, is_connected is false in every later
\* state and no listener emits connection_changed(true) any more, also when a
\* connection attempt that was in flight succeeds afterwards.
C25_StaysDisconnected ==
    /\ [](~running => ~is_connected)
    /\ [][~running => \A l \in Listeners : ~EmitsConnected(l)]_vars

\* A loop thread passes the loop test and starts another probe
ResumesProbing(t) == lpc[t] = "test" /\ lpc'[t] = "discover"

\* C26: a loop thread that was told to stop and has been replaced by a later
\* start_continuous_discovery() never probes again, so that no two loops run.
C26_StoppedLoopStaysStopped ==
    [][\A t \in LoopThreads : ResumesProbing(t) => t = discovery_thread]_vars

\* No quick_discover() call is in progress
NoQuickCall == \A w \in Workers : qpc[w] = "idle"

\* C27: whenever every quick_discover() call has returned, the shared prober's
\* timeout is the value it had before the calls, the default.
C27_QuickTimeoutRestored == NoQuickCall => timeout = DefaultTimeout

\* C28: in every reachable state of a session, with connect() called any number
\* of times, 0 <= reconnect_attempts <= max_reconnect_attempts.
C28_AttemptsWithinBounds ==
    0 <= reconnect_attempts /\ reconnect_attempts <= max_reconnect_attempts

\* C29: at no time does get_online_servers() return an entry that was last seen
\* more than max_cache_age seconds ago.
C29_OnlineEntriesAreFresh ==
    \A server \in GetOnlineServers(found_servers) : now - server.last_seen <= max_cache_age

\* The launch asked for password protection and found no stored hash
ProtectsAnew == launch.password_protected /\ launch.stored.password_hash = NoHash

\* C30: when the server is launched with --password-protected and no hash is
\* stored, the startup check never runs on a configuration that is marked
\* protected without a hash: a password has been chosen and the check accepts it.
C30_PasswordSetBeforeCheck ==
    (mpc = "check" /\ ProtectsAnew) =>
        /\ ~(IsProtected(config) /\ config.password_hash = NoHash)
        /\ chosen # ""
        /\ VerifyPassword(config, chosen)

====
